---------------------------- MODULE Spec2Model ----------------------------
(***************************************************************************)
(* Model of UniswapGetPosition (src/main.go): the packed encoder           *)
(* (encodePacked, int24Bytes), the key derivation (calcPositionKey) and    *)
(* the fail-fast pipeline of main.                                         *)
(*                                                                         *)
(* Three specifications share the variables:                               *)
(*   SpecInt24  int24Bytes applied to one integer drawn from IntSamples    *)
(*   SpecEnc    calcPositionKey's body run on an arbitrary argument list   *)
(*              of encodePacked (every type of its switch, and types       *)
(*              outside it)                                                *)
(*   Spec       main, from the call of calcPositionKey to fmt.Printf or    *)
(*              log.Fatal                                                  *)
(* A byte is a number in 0..255, a byte slice a sequence of bytes.         *)
(***************************************************************************)
EXTENDS Integers, Sequences, FiniteSets, TLC

VARIABLES
    pc,           \* position of the running function
    n, bytes,     \* int24Bytes: its argument and its result
    args, idx,    \* encodePacked: the variadic arguments, the loop position
    buffer,       \* encodePacked: the bytes.Buffer
    callData,     \* calcPositionKey: the slice encodePacked returned
    err,          \* the error value of the last call that returns one
    positionKey,  \* main: the hash calcPositionKey returned
    owner, tickLower, tickUpper,   \* the package-level configuration
    contract, calldata, client, response, position,   \* main's locals
    printed,      \* whether fmt.Printf wrote the Position
    fatal,        \* the stage whose log.Fatal ended the process ("" if none)
    trace,        \* history: the stages executed, in order, with their outcome
    calls         \* history: number of eth_call requests issued

vars == <<pc, n, bytes, args, idx, buffer, callData, err, positionKey,
          owner, tickLower, tickUpper, contract, calldata, client, response,
          position, printed, fatal, trace, calls>>

---------------------------------------------------------------------------
(* Bounds of the model *)

\* half-width of each window of integers checked around a centre
Window == 12
\* longest argument list handed to encodePacked in SpecEnc
MaxArgs == 3
\* longest response, in 32-byte words, the node returns in Spec
MaxWords == 2

---------------------------------------------------------------------------
(* Program constants *)

\* 1<<24
TwoPow24 == 16777216
\* var tickLower int32 = -197740
ConfigTickLower == -197740
\* var tickUpper int32 = -197640
ConfigTickUpper == -197640
\* make([]byte, 3)
Int24Len == 3

\* ownerPositionAddress = 0xF829c130478599E4EF49F6e02EDaA1F8736E9B00
ownerPositionAddress ==
    <<248, 41, 193, 48, 71, 133, 153, 228, 239, 73,
      246, 224, 46, 218, 161, 248, 115, 110, 155, 0>>

\* poolAddress = 0xc6962004f452be9203591991d15f6b388e09e8d0
poolAddress ==
    <<198, 150, 32, 4, 244, 82, 190, 146, 3, 89,
      25, 145, 209, 95, 107, 56, 142, 9, 232, 208>>

---------------------------------------------------------------------------
(* Pure functions *)

Max(a, b) == IF a >= b THEN a ELSE b

Abs(x) == IF x < 0 THEN 0 - x ELSE x

\* (*big.Int).Bytes(): the big-endian bytes of |x| without leading zeros;
\* the empty slice for 0.
RECURSIVE NatBytes(_)
NatBytes(x) == IF x = 0 THEN <<>> ELSE Append(NatBytes(x \div 256), x % 256)

BigIntBytes(x) == NatBytes(Abs(x))

\* the builtin copy(dst, src): min(len(dst), len(src)) elements of src
\* overwrite the FRONT of dst, the rest of dst is kept.
Copy(dst, src) ==
    [k \in 1..Len(dst) |-> IF k <= Len(src) THEN src[k] ELSE dst[k]]

\* n.Bytes()[max(0, len(n.Bytes())-3):]
LowOrder3(b) == SubSeq(b, Max(0, Len(b) - 3) + 1, Len(b))

\* a variant without the branch for negative numbers
TwosComplement_Skipped(x) == x

\* if n.Sign() == -1: n = 0 - n, then n = (1<<24) - n
TwosComplement(x) == IF x < 0 THEN TwoPow24 - (0 - x) ELSE x

int24Bytes(x) ==
    Copy([k \in 1..Int24Len |-> 0], LowOrder3(BigIntBytes(TwosComplement(x))))

---------------------------------------------------------------------------
(* Values shared by the specifications *)

NilErr == [kind |-> "nil", detail |-> ""]

\* a Go byte slice: nil, or its elements
NilSlice == [isNil |-> TRUE, elems |-> <<>>]
Slice(s) == [isNil |-> FALSE, elems |-> s]

\* common.Hash{} and the digest crypto.Keccak256Hash returns.  The hash
\* function is go-ethereum's; the model keeps the digest symbolic, as the
\* bytes it was computed from.
ZeroHash == [alg |-> "zero", of |-> <<>>]
Keccak256Hash(data) == [alg |-> "keccak256", of |-> data.elems]

\* var position Position before and after UnpackIntoInterface filled it; the
\* decoding itself is go-ethereum's, so the filled record is kept symbolic,
\* as the response it was decoded from.
NoPosition == [set |-> FALSE, decodedFrom |-> <<>>]
PositionOf(resp) == [set |-> TRUE, decodedFrom |-> resp]

\* calldata before contract.Pack, and what Pack(positionsMethod, key) yields
NilCalldata == [isNil |-> TRUE, method |-> "", key |-> ZeroHash]
PackedCall(method, key) == [isNil |-> FALSE, method |-> method, key |-> key]

Centres ==
    {0, 256, 0 - 256, 65536, 0 - 65536, 8388608, 0 - 8388608,
     ConfigTickLower, ConfigTickUpper,
     TwoPow24, 0 - TwoPow24, TwoPow24 + 65536, 0 - (TwoPow24 + 65536)}

\* the integers int24Bytes is applied to: windows around every place where
\* the length of the natural representation, the sign or the range changes
IntSamples == {c + d : c \in Centres, d \in (0 - Window)..Window}

InInt24Range(x) == x >= 0 - 8388608 /\ x <= 8388607

---------------------------------------------------------------------------
(* SpecInt24: int24Bytes on one integer *)

Idle ==
    /\ args = <<>> /\ idx = 0 /\ buffer = <<>> /\ callData = NilSlice
    /\ err = NilErr /\ positionKey = ZeroHash
    /\ owner = ownerPositionAddress
    /\ tickLower = ConfigTickLower /\ tickUpper = ConfigTickUpper
    /\ contract = "unset" /\ calldata = NilCalldata /\ client = "unset"
    /\ response = <<>> /\ position = NoPosition
    /\ printed = FALSE /\ fatal = "" /\ trace = <<>>
    /\ calls = 0

InitInt24 ==
    /\ pc = "int24Bytes"
    /\ n \in IntSamples
    /\ bytes = <<>>
    /\ Idle

Int24Call ==
    /\ pc = "int24Bytes"
    /\ bytes' = int24Bytes(n)
    /\ pc' = "int24Returned"
    /\ UNCHANGED <<n, args, idx, buffer, callData, err, positionKey, owner,
                   tickLower, tickUpper, contract, calldata, client, response,
                   position, printed, fatal, trace, calls>>

NextInt24 == Int24Call

SpecInt24 == InitInt24 /\ [][NextInt24]_vars

---------------------------------------------------------------------------
(* encodePacked and calcPositionKey *)

\* one variadic argument: its dynamic type, and its value (num for the
\* integer types, data for the byte-like ones)
Arg(t, num, data) == [type |-> t, num |-> num, data |-> data]

AddressArg(a) == Arg("common.Address", 0, a)
Int32Arg(v) == Arg("int32", v, <<>>)
BigIntArg(v) == Arg("*big.Int", v, <<>>)
StringArg(s) == Arg("string", 0, s)
BytesArg(s) == Arg("[]byte", 0, s)

\* the cases of the type switch
SupportedTypes == {"common.Address", "*big.Int", "int32", "string", "[]byte"}

\* a variant in which the switch has no default case
IsSupported_NoDefault(a) == TRUE

IsSupported(a) == a.type \in SupportedTypes

\* a variant of the int32 case that writes a 0 byte after the value
ArgBytes_Separator(a) ==
    CASE a.type = "common.Address" -> a.data
      [] a.type = "*big.Int" -> int24Bytes(a.num)
      [] a.type = "int32" -> int24Bytes(a.num) \o <<0>>
      [] a.type = "string" -> a.data
      [] a.type = "[]byte" -> a.data
      [] OTHER -> <<>>

\* what each case of the switch hands to buffer.Write
ArgBytes(a) ==
    CASE a.type = "common.Address" -> a.data
      [] a.type = "*big.Int" -> int24Bytes(a.num)
      [] a.type = "int32" -> int24Bytes(a.num)
      [] a.type = "string" -> a.data
      [] a.type = "[]byte" -> a.data
      [] OTHER -> <<>>

\* fmt.Errorf("unsupported type: %T", v)
UnsupportedType(a) == [kind |-> "unsupported type", detail |-> a.type]

\* buffer.Bytes(): the written bytes; nil for a Buffer nothing was written to
BufferBytes(b) == IF b = <<>> THEN NilSlice ELSE Slice(b)

Stage(name, ok) == [stage |-> name, ok |-> ok]

\* one iteration of the loop over args
EncodeArg ==
    /\ pc = "encodePacked"
    /\ idx < Len(args)
    /\ LET a == args[idx + 1] IN
       IF IsSupported(a)
       THEN /\ buffer' = buffer \o ArgBytes(a)
            /\ idx' = idx + 1
            /\ UNCHANGED <<pc, callData, err, trace>>
       ELSE /\ callData' = NilSlice
            /\ err' = UnsupportedType(a)
            /\ pc' = "calcPositionKey74"
            /\ trace' = Append(trace, Stage("encode", FALSE))
            /\ UNCHANGED <<buffer, idx>>
    /\ UNCHANGED <<n, bytes, args, positionKey, owner, tickLower, tickUpper,
                   contract, calldata, client, response, position, printed,
                   fatal, calls>>

\* return buffer.Bytes(), nil
EncodeReturn ==
    /\ pc = "encodePacked"
    /\ idx = Len(args)
    /\ callData' = BufferBytes(buffer)
    /\ err' = NilErr
    /\ pc' = "calcPositionKey74"
    /\ trace' = Append(trace, Stage("encode", TRUE))
    /\ UNCHANGED <<n, bytes, args, idx, buffer, positionKey, owner, tickLower,
                   tickUpper, contract, calldata, client, response, position,
                   printed, fatal, calls>>

\* calcPositionKey after encodePacked returned
CalcPositionKeyReturn ==
    /\ pc = "calcPositionKey74"
    /\ IF err # NilErr
       THEN /\ positionKey' = ZeroHash
            /\ UNCHANGED trace
       ELSE /\ positionKey' = Keccak256Hash(callData)
            /\ trace' = Append(trace, Stage("hash", TRUE))
    /\ pc' = "main47"
    /\ UNCHANGED <<n, bytes, args, idx, buffer, callData, err, owner,
                   tickLower, tickUpper, contract, calldata, client, response,
                   position, printed, fatal, calls>>

---------------------------------------------------------------------------
(* SpecEnc: calcPositionKey's body on an arbitrary argument list *)

\* the int32 values handed to encodePacked: both signs, inside and outside
\* the int24 range
TickSamples ==
    {ConfigTickLower, ConfigTickUpper, 5, TwoPow24 + 5, 0 - (TwoPow24 + 1)}

OwnerSamples == {ownerPositionAddress, poolAddress}

ArgUniverse ==
    {AddressArg(a) : a \in OwnerSamples}
    \cup {Int32Arg(v) : v \in TickSamples}
    \cup {BigIntArg(v) : v \in {70000, 0 - 1}}
    \cup {StringArg(s) : s \in {<<>>, <<97, 98>>}}
    \cup {BytesArg(<<1, 2, 3, 4>>)}
    \cup {Arg("int64", 7, <<>>), Arg("bool", 1, <<>>)}

ArgLists == UNION {[1..k -> ArgUniverse] : k \in 0..MaxArgs}

InitEnc ==
    /\ pc = "encodePacked"
    /\ n = 0 /\ bytes = <<>>
    /\ args \in ArgLists
    /\ idx = 0 /\ buffer = <<>> /\ callData = NilSlice
    /\ err = NilErr /\ positionKey = ZeroHash
    /\ owner = ownerPositionAddress
    /\ tickLower = ConfigTickLower /\ tickUpper = ConfigTickUpper
    /\ contract = "unset" /\ calldata = NilCalldata /\ client = "unset"
    /\ response = <<>> /\ position = NoPosition
    /\ printed = FALSE /\ fatal = "" /\ trace = <<>>
    /\ calls = 0

NextEnc == EncodeArg \/ EncodeReturn \/ CalcPositionKeyReturn

SpecEnc == InitEnc /\ [][NextEnc]_vars

---------------------------------------------------------------------------
(* main *)

\* the raw responses the node may return: up to MaxWords 32-byte words, a
\* word standing for its big-endian value
WordSamples == {0, 1}
Responses == UNION {[1..k -> WordSamples] : k \in 0..MaxWords}

\* where main goes after each call whose error it tests; "exit" after
\* log.Fatal (os.Exit(1)) and after the last statement
AfterCalcPositionKey(e) == IF e # NilErr THEN "exit" ELSE "main50"

AfterDial(e) == IF e # NilErr THEN "exit" ELSE "main58"

\* a variant that issues the request again when it failed
AfterCallContract_Retry(e) == IF e # NilErr THEN "main58" ELSE "main65"

AfterCallContract(e) == IF e # NilErr THEN "exit" ELSE "main65"

AfterUnpack(e) == IF e # NilErr THEN "exit" ELSE "main69"

\* the message of the log.Fatal a failed stage ends in
FatalOf(e, msg) == IF e # NilErr THEN msg ELSE ""

LibErr(what) == [kind |-> what, detail |-> ""]

\* positionKey, err := calcPositionKey(ownerPositionAddress, tickLower, tickUpper)
\* up to the call of encodePacked(address, tickLower, tickUpper)
MainCallCalcPositionKey ==
    /\ pc = "main46"
    /\ args' = <<AddressArg(owner), Int32Arg(tickLower), Int32Arg(tickUpper)>>
    /\ idx' = 0
    /\ buffer' = <<>>
    /\ pc' = "encodePacked"
    /\ UNCHANGED <<n, bytes, callData, err, positionKey, owner, tickLower,
                   tickUpper, contract, calldata, client, response, position,
                   printed, fatal, trace, calls>>

\* if err != nil { log.Fatal("calc position key:", err) }
MainCheckPositionKey ==
    /\ pc = "main47"
    /\ pc' = AfterCalcPositionKey(err)
    /\ fatal' = FatalOf(err, "calc position key")
    /\ UNCHANGED <<n, bytes, args, idx, buffer, callData, err, positionKey,
                   owner, tickLower, tickUpper, contract, calldata, client,
                   response, position, printed, trace, calls>>

\* contract, _ := abi.JSON(strings.NewReader(abiUniV3Pool)): the error is
\* assigned to the blank identifier; on an error the library returns the
\* zero abi.ABI
MainAbiJSON ==
    /\ pc = "main50"
    /\ \E ok \in BOOLEAN :
          /\ contract' = IF ok THEN "parsed" ELSE "zero"
          /\ trace' = Append(trace, Stage("abi.JSON", ok))
    /\ pc' = "main51"
    /\ UNCHANGED <<n, bytes, args, idx, buffer, callData, err, positionKey,
                   owner, tickLower, tickUpper, calldata, client, response,
                   position, printed, fatal, calls>>

\* calldata, _ := contract.Pack(positionsMethod, positionKey): the error is
\* assigned to the blank identifier; the zero ABI has no method to pack
MainPack ==
    /\ pc = "main51"
    /\ \E ok \in (IF contract = "parsed" THEN BOOLEAN ELSE {FALSE}) :
          /\ calldata' = IF ok THEN PackedCall("positions", positionKey)
                               ELSE NilCalldata
          /\ trace' = Append(trace, Stage("Pack", ok))
    /\ pc' = "main53"
    /\ UNCHANGED <<n, bytes, args, idx, buffer, callData, err, positionKey,
                   owner, tickLower, tickUpper, contract, client, response,
                   position, printed, fatal, calls>>

\* client, err := ethclient.Dial(nodeAddr); if err != nil { log.Fatal(...) }
MainDial ==
    /\ pc = "main53"
    /\ \E ok \in BOOLEAN :
          /\ err' = IF ok THEN NilErr ELSE LibErr("dial")
          /\ client' = IF ok THEN "connected" ELSE "nil"
          /\ trace' = Append(trace, Stage("Dial", ok))
          /\ pc' = AfterDial(err')
          /\ fatal' = FatalOf(err', "conenct to node")
    /\ UNCHANGED <<n, bytes, args, idx, buffer, callData, positionKey, owner,
                   tickLower, tickUpper, contract, calldata, response,
                   position, printed, calls>>

\* response, err := client.CallContract(ctx, CallMsg{To: &poolAddress,
\* Data: calldata}, nil); if err != nil { log.Fatal(...) }
MainCallContract ==
    /\ pc = "main58"
    /\ \E ok \in BOOLEAN, r \in Responses :
          /\ err' = IF ok THEN NilErr ELSE LibErr("call")
          /\ response' = IF ok THEN r ELSE <<>>
          /\ trace' = Append(trace, Stage("CallContract", ok))
          /\ pc' = AfterCallContract(err')
          /\ fatal' = FatalOf(err', "call contract")
    /\ calls' = calls + 1
    /\ UNCHANGED <<n, bytes, args, idx, buffer, callData, positionKey, owner,
                   tickLower, tickUpper, contract, calldata, client, position,
                   printed>>

\* if err := contract.UnpackIntoInterface(&position, positionsMethod,
\* response); err != nil { log.Fatal(...) }.  Which responses the library
\* accepts is its own matter: both outcomes are allowed for every response,
\* except that the zero ABI has no method to decode for.
MainUnpack ==
    /\ pc = "main65"
    /\ \E ok \in (IF contract = "parsed" THEN BOOLEAN ELSE {FALSE}) :
          /\ err' = IF ok THEN NilErr ELSE LibErr("unpack")
          /\ position' = IF ok THEN PositionOf(response) ELSE NoPosition
          /\ trace' = Append(trace, Stage("Unpack", ok))
          /\ pc' = AfterUnpack(err')
          /\ fatal' = FatalOf(err', "parse result contract")
    /\ UNCHANGED <<n, bytes, args, idx, buffer, callData, positionKey, owner,
                   tickLower, tickUpper, contract, calldata, client, response,
                   printed, calls>>

\* fmt.Printf("%+v", position)
MainPrintf ==
    /\ pc = "main69"
    /\ printed' = TRUE
    /\ trace' = Append(trace, Stage("Printf", TRUE))
    /\ pc' = "exit"
    /\ UNCHANGED <<n, bytes, args, idx, buffer, callData, err, positionKey,
                   owner, tickLower, tickUpper, contract, calldata, client,
                   response, position, fatal, calls>>

\* the state main starts in; the owner address and the two ticks, which the
\* source fixes in package-level variables, range over the samples (the
\* values of the source among them)
Init ==
    /\ pc = "main46"
    /\ n = 0 /\ bytes = <<>>
    /\ args = <<>> /\ idx = 0 /\ buffer = <<>> /\ callData = NilSlice
    /\ err = NilErr /\ positionKey = ZeroHash
    /\ owner \in OwnerSamples
    /\ tickLower \in TickSamples /\ tickUpper \in TickSamples
    /\ contract = "unset" /\ calldata = NilCalldata /\ client = "unset"
    /\ response = <<>> /\ position = NoPosition
    /\ printed = FALSE /\ fatal = "" /\ trace = <<>>
    /\ calls = 0

Next ==
    \/ MainCallCalcPositionKey
    \/ EncodeArg
    \/ EncodeReturn
    \/ CalcPositionKeyReturn
    \/ MainCheckPositionKey
    \/ MainAbiJSON
    \/ MainPack
    \/ MainDial
    \/ MainCallContract
    \/ MainUnpack
    \/ MainPrintf

Spec == Init /\ [][Next]_vars

---------------------------------------------------------------------------
(* Properties of int24Bytes, under SpecInt24 *)

\* the 3 bytes b read as a big-endian 24-bit two's-complement integer
decodeInt24(b) ==
    LET u == b[1] * 65536 + b[2] * 256 + b[3]
    IN  IF u >= 8388608 THEN u - TwoPow24 ELSE u

\* the 3-byte most-significant-byte-first representation of u in 0..2^24-1
BigEndian3(u) == <<u \div 65536, (u \div 256) % 256, u % 256>>

\* C1: for every v in [-2^23, 2^23-1], the 3 bytes int24Bytes(v) returns,
\* read as a big-endian 24-bit two's-complement integer, give back v.
C1_RoundTrip ==
    (pc = "int24Returned" /\ InInt24Range(n))
        => (Len(bytes) = 3 /\ decodeInt24(bytes) = n)

\* C2: for every v in [-2^23, 2^23-1], int24Bytes(v) is the 3-byte
\* big-endian representation, left-zero-padded, of u = 2^24 + v for a
\* negative v and u = v otherwise.
C2_BigEndianLeftPadded ==
    (pc = "int24Returned" /\ InInt24Range(n))
        => bytes = BigEndian3(IF n < 0 THEN TwoPow24 + n ELSE n)

\* C3 as stated: int24Bytes(-197740) is FC FF 94 and int24Bytes(-197640)
\* is FD 00 38.
C3_StatedVectors ==
    pc = "int24Returned" =>
        /\ (n = ConfigTickLower => bytes = <<252, 255, 148>>)
        /\ (n = ConfigTickUpper => bytes = <<253, 0, 56>>)

\* C3 amended: int24Bytes(-197740) is FC FB 94 and int24Bytes(-197640) is
\* FC FB F8, the 24-bit two's complements 2^24 - 197740 and 2^24 - 197640.
C3_TickVectors ==
    pc = "int24Returned" =>
        /\ (n = ConfigTickLower => bytes = <<252, 251, 148>>)
        /\ (n = ConfigTickUpper => bytes = <<252, 251, 248>>)

C3_Witness ==
    /\ pc = "int24Returned"
    /\ n = ConfigTickUpper
    /\ bytes[3] = 248

\* C10: for every v outside [-2^23, 2^23-1], int24Bytes(v) is exactly 3
\* bytes, the big-endian representation of v modulo 2^24.
C10_TruncatesModulo ==
    (pc = "int24Returned" /\ ~InInt24Range(n))
        => (Len(bytes) = 3 /\ bytes = BigEndian3(n % TwoPow24))

---------------------------------------------------------------------------
(* Properties of encodePacked and calcPositionKey, under SpecEnc *)

Returned == pc \in {"calcPositionKey74", "main47"}

\* the width the claim gives each argument type
StatedWidth(a) ==
    CASE a.type = "common.Address" -> 20
      [] a.type \in {"int32", "*big.Int"} -> 3
      [] a.type \in {"string", "[]byte"} -> Len(a.data)

RECURSIVE SumWidths(_, _)
SumWidths(as, k) ==
    IF k = 0 THEN 0 ELSE SumWidths(as, k - 1) + StatedWidth(as[k])

IsKeyShape(as) ==
    /\ Len(as) = 3
    /\ as[1].type = "common.Address"
    /\ as[2].type = "int32"
    /\ as[3].type = "int32"

\* C4: the output of encodePacked is the in-order concatenation of its
\* arguments' bytes with nothing between them: its length is the sum of the
\* arguments' widths, every Address, string and []byte argument stands
\* verbatim at the offset the widths before it give, and for (Address,
\* int32, int32) the buffer that is hashed has exactly 26 bytes.
C4_PackedLength ==
    (Returned /\ err = NilErr) =>
        /\ Len(callData.elems) = SumWidths(args, Len(args))
        /\ \A k \in 1..Len(args) :
              args[k].type \in {"common.Address", "string", "[]byte"} =>
                  SubSeq(callData.elems, SumWidths(args, k - 1) + 1,
                         SumWidths(args, k)) = args[k].data
        /\ IsKeyShape(args) =>
              /\ Len(callData.elems) = 26
              /\ SubSeq(callData.elems, 1, 20) = args[1].data
              /\ pc = "main47" => Len(positionKey.of) = 26

C4_Witness ==
    /\ pc = "main47"
    /\ IsKeyShape(args)
    /\ args[2].num < 0
    /\ args[3].num > TwoPow24
    /\ positionKey.alg = "keccak256"
    /\ Len(positionKey.of) = 26

\* the positions of the arguments whose type is outside the closed set
Unsupported(as) ==
    {k \in 1..Len(as) :
        as[k].type \notin
            {"common.Address", "*big.Int", "int32", "string", "[]byte"}}

Least(S) == CHOOSE k \in S : \A j \in S : k <= j

\* C5: when an argument has a type outside the closed set, encodePacked
\* returns a nil buffer and an error naming the type of the first such
\* argument, also when earlier arguments were written; calcPositionKey
\* returns that error with the zero hash, and no key is ever computed from
\* an argument list that holds an unsupported type.
C5_UnsupportedType ==
    (Returned /\ Unsupported(args) # {}) =>
        /\ err = [kind |-> "unsupported type",
                  detail |-> args[Least(Unsupported(args))].type]
        /\ callData = NilSlice
        /\ positionKey = ZeroHash
        /\ \A i \in DOMAIN trace : trace[i].stage # "hash"

C5_Witness ==
    /\ pc = "main47"
    /\ Len(args) = 3
    /\ Unsupported(args) = {3}
    /\ Len(buffer) > 20
    /\ callData = NilSlice
    /\ err.detail = "int64"
    /\ positionKey = ZeroHash

---------------------------------------------------------------------------
(* Properties of main, under Spec *)

StagePos(name) == {i \in DOMAIN trace : trace[i].stage = name}

\* C6: when a stage fails, no later stage is executed, nothing is printed,
\* and the process ends in that stage's log.Fatal; the contract call is
\* never issued after a failed abi.JSON or Pack.
C6_FailFast ==
    \A i \in DOMAIN trace :
        ~trace[i].ok =>
            /\ i = Len(trace)
            /\ ~printed
            /\ pc = "exit" => fatal # ""
            /\ trace[i].stage \in {"abi.JSON", "Pack"} => calls = 0

\* C9: the stages encode, hash, contract call, decode each run at most
\* once, in this order, each only after the one before it succeeded, and at
\* most one contract call is issued.
C9_StageOrder ==
    /\ calls <= 1
    /\ calls = Cardinality(StagePos("CallContract"))
    /\ \A s \in {"encode", "hash", "CallContract", "Unpack"} :
          Cardinality(StagePos(s)) <= 1
    /\ \A i \in StagePos("hash") :
          \E j \in 1..(i - 1) : trace[j] = Stage("encode", TRUE)
    /\ \A i \in StagePos("CallContract") :
          \E j \in 1..(i - 1) : trace[j] = Stage("hash", TRUE)
    /\ \A i \in StagePos("Unpack") :
          \E j \in 1..(i - 1) : trace[j] = Stage("CallContract", TRUE)

C9_Witness ==
    /\ pc = "exit"
    /\ printed
    /\ calls = 1
    /\ StagePos("encode") # {} /\ StagePos("hash") # {}
    /\ StagePos("CallContract") # {} /\ StagePos("Unpack") # {}

=============================================================================
